---- MODULE Spec2Model ----
(***************************************************************************)
(* A model of the colour algebra of the palette crate: Lch and Xyz         *)
(* (Limited, Mix, Shade, GetHue, Hue, Saturate) and Component::convert.    *)
(*                                                                         *)
(* The crate is generic over T: Float.  The model keeps IEEE-754 binary    *)
(* arithmetic (round to nearest, ties to even, gradual underflow,          *)
(* overflow to infinity, NaN) at a reduced width, and the fixed-width      *)
(* integer types at reduced widths that keep the order of the real ones:   *)
(*   u8 < u16 < precision(f32) < u32 < precision(f64) < u64.               *)
(* A float is an integer n standing for n * 2^-FracBits, or one of NaN,    *)
(* PosInf, NegInf.  The two zeros are not told apart: Rust's == and < do   *)
(* not tell them apart and nothing modelled here divides by zero.          *)
(***************************************************************************)
EXTENDS Integers, Sequences, FiniteSets, TLC

\* ------------------------------------------------------------ the widths
\* Bits of u8, u16, u32, u64 in the model.
W8 == 2
W16 == 3
W32 == 5
W64 == 7
\* Significand bits of f32 and f64 in the model.
P32 == 4
P64 == 6
\* A float's unit is 2^-FracBits; f32's smallest step is 2^Low32 units.
FracBits == 5
Low32 == 3
\* The largest power-of-two exponent (in units) of a finite float.
Top == 9

RECURSIVE Pow2(_)
Pow2(k) == IF k <= 0 THEN 1 ELSE 2 * Pow2(k - 1)

RECURSIVE BitLen(_)
BitLen(n) == IF n <= 0 THEN 0 ELSE 1 + BitLen(n \div 2)

Unit == Pow2(FracBits)

\* The two float formats: p significand bits, steps of 2^lo .. 2^top units.
F32 == [p |-> P32, lo |-> Low32, top |-> Top]
F64 == [p |-> P64, lo |-> 0, top |-> Top]

MaxFin(fm) == (2 ^ fm.p - 1) * 2 ^ fm.top

PosInf == Pow2(Top + P64 + 2)
NegInf == 0 - PosInf
NaN == PosInf + 1

IsNaN(a) == a = NaN
IsInf(a) == a = PosInf \/ a = NegInf
IsFinite(a) == ~IsNaN(a) /\ ~IsInf(a)

Abs(n) == IF n < 0 THEN 0 - n ELSE n
Sgn(n) == IF n < 0 THEN 0 - 1 ELSE IF n > 0 THEN 1 ELSE 0

\* num/den >= 0 rounded to the format: nearest, ties to even, overflow to PosInf.
RoundMag(fm, num, den) ==
    LET f == num \div den
        b == BitLen(f) - fm.p
        g == 2 ^ (IF b > fm.lo THEN b ELSE fm.lo)
        low == (f \div g) * g
        rem2 == 2 * (num - low * den)
        up == rem2 > g * den \/ (rem2 = g * den /\ (low \div g) % 2 = 1)
        r == IF up THEN low + g ELSE low
    IN  IF r > MaxFin(fm) THEN PosInf ELSE r

\* The rational num/den (den > 0) rounded to the format.
RoundQ(fm, num, den) == Sgn(num) * RoundMag(fm, Abs(num), den)

\* A decimal literal num/den as a value of the format: cast(100.0), cast(0.95047).
Lit(fm, num, den) == RoundQ(fm, num * Unit, den)

FNeg(a) == IF IsNaN(a) THEN NaN ELSE 0 - a

FAdd(fm, a, b) ==
    IF IsNaN(a) \/ IsNaN(b) THEN NaN
    ELSE IF IsInf(a) THEN (IF IsInf(b) /\ b # a THEN NaN ELSE a)
    ELSE IF IsInf(b) THEN b
    ELSE RoundQ(fm, a + b, 1)

FSub(fm, a, b) == FAdd(fm, a, FNeg(b))

FMul(fm, a, b) ==
    IF IsNaN(a) \/ IsNaN(b) THEN NaN
    ELSE IF IsInf(a) \/ IsInf(b)
         THEN (IF a = 0 \/ b = 0 THEN NaN
               ELSE IF Sgn(a) * Sgn(b) > 0 THEN PosInf ELSE NegInf)
    ELSE IF a = 0 \/ b = 0 THEN 0
    ELSE IF Abs(a) > (2 * MaxFin(fm) * Unit) \div Abs(b)
         THEN (IF Sgn(a) * Sgn(b) > 0 THEN PosInf ELSE NegInf)
    ELSE RoundQ(fm, a * b, Unit)

FDiv(fm, a, b) ==
    IF IsNaN(a) \/ IsNaN(b) THEN NaN
    ELSE IF IsInf(a) THEN (IF IsInf(b) THEN NaN
                           ELSE IF Sgn(a) * (IF b < 0 THEN 0 - 1 ELSE 1) > 0
                                THEN PosInf ELSE NegInf)
    ELSE IF IsInf(b) THEN 0
    ELSE IF b = 0 THEN (IF a = 0 THEN NaN ELSE IF a > 0 THEN PosInf ELSE NegInf)
    ELSE IF b < 0 THEN RoundQ(fm, (0 - a) * Unit, 0 - b)
    ELSE RoundQ(fm, a * Unit, b)

\* PartialOrd and PartialEq of floats: every comparison with NaN is false.
FLt(a, b) == ~IsNaN(a) /\ ~IsNaN(b) /\ a < b
FLe(a, b) == ~IsNaN(a) /\ ~IsNaN(b) /\ a <= b
FGt(a, b) == FLt(b, a)
FGe(a, b) == FLe(b, a)
FEq(a, b) == ~IsNaN(a) /\ ~IsNaN(b) /\ a = b

\* Float::max: the other operand when one is NaN.
FMax(a, b) == IF IsNaN(a) THEN b ELSE IF IsNaN(b) THEN a ELSE IF a < b THEN b ELSE a


\* The largest s with s * s <= n, searched between lo and hi.
RECURSIVE Isqrt(_, _, _)
Isqrt(n, lo, hi) ==
    IF lo >= hi THEN lo
    ELSE LET mid == (lo + hi + 1) \div 2
         IN  IF mid * mid <= n THEN Isqrt(n, mid, hi) ELSE Isqrt(n, lo, mid - 1)

\* The floats next to a float r >= 0: the largest float at or below n, the
\* next one above r, and the next one below r > 0.
FFloor(fm, n) ==
    LET e == IF BitLen(n) - fm.p > fm.lo THEN BitLen(n) - fm.p ELSE fm.lo
    IN  (n \div Pow2(e)) * Pow2(e)
FNext(fm, r) ==
    r + Pow2(IF BitLen(r) - fm.p > fm.lo THEN BitLen(r) - fm.p ELSE fm.lo)
FPrev(fm, r) == FFloor(fm, r - 1)

\* Float::sqrt: NaN below zero, otherwise the float nearest to the root.  The
\* root of a units is the root of a * Unit, in units.
FSqrt(fm, a) ==
    IF IsNaN(a) \/ a < 0 THEN NaN
    ELSE IF a = PosInf THEN PosInf
    ELSE LET n == a * Unit
             low == FFloor(fm, Isqrt(n, 0, Pow2(BitLen(n) \div 2 + 1)))
             high == FNext(fm, low)
         IN  IF (low + high) * (low + high) > 4 * n THEN low
             ELSE IF (low + high) * (low + high) < 4 * n THEN high
             ELSE RoundQ(fm, low + high, 2)

\* ------------------------------------------------------------ helpers of lib.rs
\* The component type T of the colours: Lch<D65, f64>, Xyz<D65, f64>.
FT == F64

clamp(v, min, max) ==
    IF FLt(v, min) THEN min ELSE IF FGt(v, max) THEN max ELSE v

\* Option<T>: None is the empty sequence, Some(v) is <<v>>.
None == <<>>
Some(v) == <<v>>

\* ------------------------------------------------------------ LabHue
\* A hue holds raw degrees; it is normalized only when it is read as a number.
normalize_angle(deg) ==
    IF ~IsFinite(deg) THEN NaN
    ELSE LET c360 == Lit(FT, 360, 1)
             c180 == Lit(FT, 180, 1)
             r == deg % c360
         IN  IF r > c180 THEN r - c360 ELSE r

to_degrees(h) == normalize_angle(h)

HueAdd(h, x) == FAdd(FT, h, x)
HueSub(h, x) == FSub(FT, h, x)

\* PartialEq of LabHue: the normalized degrees are equal.
HueEq(h, k) == FEq(to_degrees(h), to_degrees(k))

\* ------------------------------------------------------------ Lch
Lch(l, chroma, hue) == [l |-> l, chroma |-> chroma, hue |-> hue]

Lch_is_valid(c) ==
    FGe(c.l, 0) /\ FLe(c.l, Lit(FT, 100, 1)) /\ FGe(c.chroma, 0)

\* clamp_self that also caps the chroma, at 200.
Lch_clamp_self_capped(c) ==
    [c EXCEPT !.l = clamp(c.l, 0, Lit(FT, 100, 1)),
              !.chroma = clamp(c.chroma, 0, Lit(FT, 200, 1))]

Lch_clamp_self(c) ==
    [c EXCEPT !.l = clamp(c.l, 0, Lit(FT, 100, 1)),
              !.chroma = FMax(c.chroma, 0)]

Lch_clamp(c) == Lch_clamp_self(c)

\* mix that weighs by the square of the factor.
Lch_mix_factor_squared(c, other, factor0) ==
    LET factor == FMul(FT, clamp(factor0, 0, Unit), clamp(factor0, 0, Unit))
        hue_diff == to_degrees(HueSub(other.hue, c.hue))
    IN  Lch(FAdd(FT, c.l, FMul(FT, factor, FSub(FT, other.l, c.l))),
            FAdd(FT, c.chroma, FMul(FT, factor, FSub(FT, other.chroma, c.chroma))),
            HueAdd(c.hue, FMul(FT, factor, hue_diff)))

\* mix that takes the hue difference as it is, the long way round included.
Lch_mix_long_way(c, other, factor0) ==
    LET factor == clamp(factor0, 0, Unit)
        hue_diff == HueSub(other.hue, c.hue)
    IN  Lch(FAdd(FT, c.l, FMul(FT, factor, FSub(FT, other.l, c.l))),
            FAdd(FT, c.chroma, FMul(FT, factor, FSub(FT, other.chroma, c.chroma))),
            HueAdd(c.hue, FMul(FT, factor, hue_diff)))

Lch_mix(c, other, factor0) ==
    LET factor == clamp(factor0, 0, Unit)
        hue_diff == to_degrees(HueSub(other.hue, c.hue))
    IN  Lch(FAdd(FT, c.l, FMul(FT, factor, FSub(FT, other.l, c.l))),
            FAdd(FT, c.chroma, FMul(FT, factor, FSub(FT, other.chroma, c.chroma))),
            HueAdd(c.hue, FMul(FT, factor, hue_diff)))

\* lighten that keeps l within [0, 100].
Lch_lighten_clamped(c, amount) ==
    Lch(clamp(FAdd(FT, c.l, FMul(FT, amount, Lit(FT, 100, 1))), 0, Lit(FT, 100, 1)),
        c.chroma, c.hue)

Lch_lighten(c, amount) ==
    Lch(FAdd(FT, c.l, FMul(FT, amount, Lit(FT, 100, 1))), c.chroma, c.hue)

\* Shade::darken, the trait's default method.
\* darken that forgets to negate the amount.
Lch_darken_same_sign(c, amount) == Lch_lighten(c, amount)

Lch_darken(c, amount) == Lch_lighten(c, FNeg(amount))

\* get_hue that tests chroma < 0 instead of chroma <= 0.
Lch_get_hue_strict(c) == IF FLt(c.chroma, 0) THEN None ELSE Some(c.hue)

Lch_get_hue(c) == IF FLe(c.chroma, 0) THEN None ELSE Some(c.hue)

\* with_hue that adds the hue to the stored one.
Lch_with_hue_added(c, hue) == Lch(c.l, c.chroma, HueAdd(c.hue, hue))

Lch_with_hue(c, hue) == Lch(c.l, c.chroma, hue)

\* shift_hue that replaces the hue by the amount.
Lch_shift_hue_replaces(c, amount) == Lch(c.l, c.chroma, amount)

Lch_shift_hue(c, amount) == Lch(c.l, c.chroma, HueAdd(c.hue, amount))

\* saturate that stops the chroma at zero.
Lch_saturate_floored(c, factor) ==
    Lch(c.l, FMax(FMul(FT, c.chroma, FAdd(FT, Unit, factor)), 0), c.hue)

Lch_saturate(c, factor) ==
    Lch(c.l, FMul(FT, c.chroma, FAdd(FT, Unit, factor)), c.hue)

\* Saturate::desaturate, the trait's default method.
\* desaturate that forgets to negate the factor.
Lch_desaturate_same_sign(c, factor) == Lch_saturate(c, factor)

Lch_desaturate(c, factor) == Lch_saturate(c, FNeg(factor))

\* ------------------------------------------------------------ Xyz
Xyz(x, y, z) == [x |-> x, y |-> y, z |-> z]

\* D65's reference white, Wp::get_xyz().
X_N == Lit(FT, 95047, 100000)
Y_N == Lit(FT, 1, 1)
Z_N == Lit(FT, 108883, 100000)
get_xyz == Xyz(X_N, Y_N, Z_N)

Xyz_is_valid(c) ==
    LET xyz_ref == get_xyz
    IN  /\ FGe(c.x, 0) /\ FLe(c.x, xyz_ref.x)
        /\ FGe(c.y, 0) /\ FLe(c.y, xyz_ref.y)
        /\ FGe(c.z, 0) /\ FLe(c.z, xyz_ref.z)

\* clamp_self that clamps all three channels to the y interval.
Xyz_clamp_self_y_only(c) ==
    Xyz(clamp(c.x, 0, Y_N), clamp(c.y, 0, Y_N), clamp(c.z, 0, Y_N))

Xyz_clamp_self(c) ==
    LET xyz_ref == get_xyz
    IN  Xyz(clamp(c.x, 0, xyz_ref.x), clamp(c.y, 0, xyz_ref.y), clamp(c.z, 0, xyz_ref.z))

Xyz_clamp(c) == Xyz_clamp_self(c)

Xyz_mix(c, other, factor0) ==
    LET factor == clamp(factor0, 0, Unit)
    IN  Xyz(FAdd(FT, c.x, FMul(FT, factor, FSub(FT, other.x, c.x))),
            FAdd(FT, c.y, FMul(FT, factor, FSub(FT, other.y, c.y))),
            FAdd(FT, c.z, FMul(FT, factor, FSub(FT, other.z, c.z))))

Xyz_lighten(c, amount) == Xyz(c.x, FAdd(FT, c.y, amount), c.z)

\* Shade::darken, the trait's default method.
Xyz_darken(c, amount) == Xyz_lighten(c, FNeg(amount))

\* Mul<T> for Xyz that scales the y channel only.
Xyz_mul_y_only(c, k) == Xyz(c.x, FMul(FT, c.y, k), c.z)

\* Mul<T> for Xyz.
Xyz_mul(c, k) == Xyz(FMul(FT, c.x, k), FMul(FT, c.y, k), FMul(FT, c.z, k))

\* From<Luma> for Xyz, of a linear luma.
Xyz_from_luma(luma) == Xyz_mul(get_xyz, luma)

\* Float::is_normal: finite, not zero and not subnormal.  The smallest normal
\* float is the first one with all p significand bits above the smallest step.
MinNormal(fm) == Pow2(fm.p + fm.lo - 1)

\* A test that only rejects zero.
is_not_zero(v) == v # 0

is_normal(v) == IsFinite(v) /\ Abs(v) >= MinNormal(FT)

Yxy(x, y, luma) == [x |-> x, y |-> y, luma |-> luma]

\* From<Yxy> for Xyz.
Xyz_from_yxy(color) ==
    IF is_normal(color.y)
    THEN Xyz(FDiv(FT, FMul(FT, color.luma, color.x), color.y),
             color.luma,
             FDiv(FT, FMul(FT, color.luma, FSub(FT, FSub(FT, Unit, color.x), color.y)),
                  color.y))
    ELSE Xyz(0, color.luma, 0)

\* Mul<Xyz> for Xyz: channel by channel.
Xyz_mul_xyz(c, other) ==
    Xyz(FMul(FT, c.x, other.x), FMul(FT, c.y, other.y), FMul(FT, c.z, other.z))

\* Add<Xyz>, Sub<Xyz> and Div<Xyz> for Xyz: channel by channel.
Xyz_add(c, other) ==
    Xyz(FAdd(FT, c.x, other.x), FAdd(FT, c.y, other.y), FAdd(FT, c.z, other.z))
Xyz_sub(c, other) ==
    Xyz(FSub(FT, c.x, other.x), FSub(FT, c.y, other.y), FSub(FT, c.z, other.z))
Xyz_div(c, other) ==
    Xyz(FDiv(FT, c.x, other.x), FDiv(FT, c.y, other.y), FDiv(FT, c.z, other.z))

\* The closures handed to component_wise: FnMut(T, T) -> T.  A closure may
\* keep state between its calls; log is the sequence of the arguments it has
\* been called with so far.  "nth" adds the number of its earlier calls to a.
call_f(f, log, a, b) ==
    [value |-> CASE f = "add" -> FAdd(FT, a, b)
                 [] f = "sub" -> FSub(FT, a, b)
                 [] f = "mul" -> FMul(FT, a, b)
                 [] f = "div" -> FDiv(FT, a, b)
                 [] f = "nth" -> FAdd(FT, a, Len(log) * Unit),
     log |-> Append(log, <<a, b>>)]

\* The closures handed to component_wise_self: FnMut(T) -> T.
call_f_self(f, log, a) ==
    [value |-> CASE f = "neg" -> FNeg(a)
                 [] f = "double" -> FAdd(FT, a, a)
                 [] f = "nth" -> FAdd(FT, a, Len(log) * Unit),
     log |-> Append(log, <<a>>)]

\* component_wise that fills the fields from z to x.
Xyz_component_wise_reversed(c, other, f) ==
    LET rz == call_f(f, <<>>, c.z, other.z)
        ry == call_f(f, rz.log, c.y, other.y)
        rx == call_f(f, ry.log, c.x, other.x)
    IN  [value |-> Xyz(rx.value, ry.value, rz.value), log |-> rx.log]

\* ComponentWise for Xyz: the fields of the struct expression are evaluated
\* in the order they are written.  The result comes with the closure's log.
Xyz_component_wise(c, other, f) ==
    LET rx == call_f(f, <<>>, c.x, other.x)
        ry == call_f(f, rx.log, c.y, other.y)
        rz == call_f(f, ry.log, c.z, other.z)
    IN  [value |-> Xyz(rx.value, ry.value, rz.value), log |-> rz.log]

Xyz_component_wise_self(c, f) ==
    LET rx == call_f_self(f, <<>>, c.x)
        ry == call_f_self(f, rx.log, c.y)
        rz == call_f_self(f, ry.log, c.z)
    IN  [value |-> Xyz(rx.value, ry.value, rz.value), log |-> rz.log]

Lab(l, a, b) == [l |-> l, a |-> a, b |-> b]

\* Float::powi(3).
powi3(c) == FMul(FT, FMul(FT, c, c), c)

\* The constants of the helper of From<Lab> for Xyz.
epsilon == Lit(FT, 6, 29)
kappa == Lit(FT, 108, 841)
delta == Lit(FT, 4, 29)

\* The helper with the cube on every value, the linear piece left out.
Xyz_from_lab_convert_cube(c) == powi3(c)

\* fn convert, the helper inside From<Lab> for Xyz.
Xyz_from_lab_convert(c) ==
    IF FGt(c, epsilon) THEN powi3(c) ELSE FMul(FT, FSub(FT, c, delta), kappa)

\* The helper in exact arithmetic, on the arguments n / (29 * Grid): the result
\* is the numerator over (29 * Grid)^3.  There c > 6/29 is n > 6 * Grid, c^3 is
\* n^3 and (c - 4/29) * (108/841) is 108 * Grid^2 * (n - 4 * Grid).
Grid == 8
Xyz_from_lab_convert_exact(n) ==
    IF n > 6 * Grid THEN n * n * n ELSE 108 * Grid * Grid * (n - 4 * Grid)

\* From<Lab> for Xyz.
Xyz_from_lab(color) ==
    LET y == FDiv(FT, FAdd(FT, color.l, Lit(FT, 16, 1)), Lit(FT, 116, 1))
        x == FAdd(FT, y, FDiv(FT, color.a, Lit(FT, 500, 1)))
        z == FSub(FT, y, FDiv(FT, color.b, Lit(FT, 200, 1)))
    IN  Xyz_mul_xyz(Xyz(Xyz_from_lab_convert(x), Xyz_from_lab_convert(y),
                        Xyz_from_lab_convert(z)),
                    get_xyz)

\* ------------------------------------------------------------ Lab to Lch
\* The directions that are whole multiples of 45 degrees: one of a and b is
\* zero or outweighs the other infinitely, or both have the same size.
Aligned(a, b) ==
    IsNaN(a) \/ IsNaN(b) \/ a = 0 \/ b = 0 \/ IsInf(a) \/ IsInf(b) \/ Abs(a) = Abs(b)

\* atan2(b, a) in degrees, normalized to [0, 360), for an aligned direction.
atan2_degrees(b, a) ==
    LET sa == IF IsInf(b) /\ ~IsInf(a) THEN 0 ELSE Sgn(a)
        sb == IF IsInf(a) /\ ~IsInf(b) THEN 0 ELSE Sgn(b)
    IN  CASE IsNaN(a) \/ IsNaN(b) -> NaN
          [] Aligned(a, b) /\ ~IsNaN(a) /\ ~IsNaN(b) ->
                Lit(FT, CASE sb = 0 /\ sa >= 0 -> 0
                          [] sb = 1 /\ sa = 1 -> 45
                          [] sb = 1 /\ sa = 0 -> 90
                          [] sb = 1 /\ sa = 0 - 1 -> 135
                          [] sb = 0 /\ sa = 0 - 1 -> 180
                          [] sb = 0 - 1 /\ sa = 0 - 1 -> 225
                          [] sb = 0 - 1 /\ sa = 0 -> 270
                          [] sb = 0 - 1 /\ sa = 1 -> 315, 1)

\* GetHue for Lab: no hue when the chroma, sqrt(a^2 + b^2), is not positive.
Lab_get_hue(color) ==
    IF FLe(FSqrt(FT, FAdd(FT, FMul(FT, color.a, color.a), FMul(FT, color.b, color.b))), 0)
    THEN None
    ELSE Some(atan2_degrees(color.b, color.a))

\* Option::unwrap_or.
unwrap_or(o, default) == IF o = None THEN default ELSE o[1]

\* From<Lab> for Lch with the sum of |a| and |b| as the chroma.
Lch_from_lab_abs_sum(color) ==
    Lch(color.l, FAdd(FT, Abs(color.a), Abs(color.b)), unwrap_or(Lab_get_hue(color), 0))

\* From<Lab> for Lch.
Lch_from_lab(color) ==
    Lch(color.l,
        FSqrt(FT, FAdd(FT, FMul(FT, color.a, color.a), FMul(FT, color.b, color.b))),
        unwrap_or(Lab_get_hue(color), 0))

\* ------------------------------------------------------------ Pixel
\* Pixel::CHANNELS of Lch and of Xyz.
Lch_CHANNELS == 3
Xyz_CHANNELS == 3

\* What a conversion returns: a value, or the failed assertion on the length.
Ok(v) == [ok |-> TRUE, value |-> v]
Rejected == [ok |-> FALSE]

\* into_raw that writes the fields of an Lch in the order l, hue, chroma.
Lch_into_raw_swapped(c) == <<c.l, c.hue, c.chroma>>

\* Pixel::into_raw and Pixel::from_raw: the fields as a flat array, in the
\* order the struct declares them.
Lch_into_raw(c) == <<c.l, c.chroma, c.hue>>

Lch_from_raw(raw) ==
    IF Len(raw) # Lch_CHANNELS THEN Rejected ELSE Ok(Lch(raw[1], raw[2], raw[3]))

Xyz_into_raw(c) == <<c.x, c.y, c.z>>

Xyz_from_raw(raw) ==
    IF Len(raw) # Xyz_CHANNELS THEN Rejected ELSE Ok(Xyz(raw[1], raw[2], raw[3]))

\* ------------------------------------------------------------ Gradient
\* A gradient is a sequence of <<position, colour>> pairs; here of Xyz colours.

\* The binary search of get for the adjacent pair of keyframes around t, from
\* the pair <<lo, hi>> of indices.
RECURSIVE Gradient_search(_, _, _, _)
Gradient_search(g, t, lo, hi) ==
    IF lo < hi - 1
    THEN LET index == lo + (hi - lo) \div 2
         IN  IF FLe(t, g[index][1])
             THEN Gradient_search(g, t, lo, index)
             ELSE Gradient_search(g, t, index, hi)
    ELSE <<lo, hi>>

\* get that mixes by the query itself, not by its place between the keyframes.
Gradient_get_unscaled(g, t) ==
    IF FLe(t, g[1][1]) THEN g[1][2]
    ELSE IF FGe(t, g[Len(g)][1]) THEN g[Len(g)][2]
    ELSE LET at == Gradient_search(g, t, 1, Len(g))
         IN  Xyz_mix(g[at[1]][2], g[at[2]][2], t)

\* Gradient::get.
Gradient_get(g, t) ==
    IF FLe(t, g[1][1]) THEN g[1][2]
    ELSE IF FGe(t, g[Len(g)][1]) THEN g[Len(g)][2]
    ELSE LET at == Gradient_search(g, t, 1, Len(g))
             min == g[at[1]][1]
             max == g[at[2]][1]
             factor == FDiv(FT, FSub(FT, t, min), FSub(FT, max, min))
         IN  Xyz_mix(g[at[1]][2], g[at[2]][2], factor)

\* ------------------------------------------------------------ Color
\* The generic Color: one of the nine variants around a colour of that space.
Variants == {"Luma", "Rgb", "Xyz", "Yxy", "Lab", "Lch", "Hsv", "Hsl", "Hwb"}

Color(variant, value) == [variant |-> variant, value |-> value]

\* Space::from(color): the conversions between the spaces are kept as terms.
From(space, color) ==
    IF color.variant = space THEN color.value ELSE <<space, "from", color>>

\* An operation of a space other than Lch and Xyz, kept as a term.
Apply(name, value, amount) == <<name, value, amount>>

\* lighten that converts the result back into the receiver's variant.
Color_lighten_back(c, amount) ==
    Color(c.variant, From(c.variant, Color("Lab", Apply("lighten", From("Lab", c), amount))))

Color_lighten(c, amount) == Color("Lab", Apply("lighten", From("Lab", c), amount))

\* Shade::darken, the trait's default method.
Color_darken(c, amount) == Color_lighten(c, FNeg(amount))

Color_saturate(c, factor) ==
    Color("Lch", IF c.variant = "Lch" THEN Lch_saturate(c.value, factor)
                 ELSE Apply("saturate", From("Lch", c), factor))

\* Saturate::desaturate, the trait's default method.
Color_desaturate(c, factor) == Color_saturate(c, FNeg(factor))

Color_mix(c, other, factor) ==
    Color("Rgb", Apply("mix", <<From("Rgb", c), From("Rgb", other)>>, factor))

\* with_hue that works in Lab and returns the Lab variant.
Color_with_hue_lab(c, hue) == Color("Lab", Apply("with_hue", From("Lab", c), hue))

Color_with_hue(c, hue) ==
    Color("Lch", IF c.variant = "Lch" THEN Lch_with_hue(c.value, hue)
                 ELSE Apply("with_hue", From("Lch", c), hue))

Color_shift_hue(c, amount) ==
    Color("Lch", IF c.variant = "Lch" THEN Lch_shift_hue(c.value, amount)
                 ELSE Apply("shift_hue", From("Lch", c), amount))

\* ------------------------------------------------------------ Alpha
Alpha(color, alpha) == [color |-> color, alpha |-> alpha]

\* From<Alpha<variant>> for Color.
Color_from_alpha(variant, color) == Color(variant, color.color)

\* The wrapping conversion that makes every colour opaque.
Colora_from_alpha_opaque(variant, color) == Alpha(Color(variant, color.color), Unit)

\* From<Alpha<variant>> for Alpha<Color>.
Colora_from_alpha(variant, color) == Alpha(Color(variant, color.color), color.alpha)

\* ------------------------------------------------------------ ApproxEq
\* The channels of the colour a variant holds, in declaration order.
channels(variant, s) ==
    IF variant = "Xyz" THEN <<s.x, s.y, s.z>>
    ELSE IF variant = "Yxy" THEN <<s.x, s.y, s.luma>>
    ELSE <<s.l, s.a, s.b>>

\* ApproxEq::relative_eq of the float type, on finite floats: equal, or within
\* eps, or within max_relative of the larger magnitude.
relative_eq(a, b, eps, max_relative) ==
    LET abs_diff == Abs(FSub(FT, a, b))
        largest == IF Abs(b) > Abs(a) THEN Abs(b) ELSE Abs(a)
    IN  \/ a = b
        \/ FLe(abs_diff, eps)
        \/ FLe(abs_diff, FMul(FT, largest, max_relative))

\* Whether the float b >= a >= 0 is at most k floats above a.
RECURSIVE UlpsWithin(_, _, _)
UlpsWithin(a, b, k) ==
    IF a >= b THEN TRUE
    ELSE IF k = 0 THEN FALSE
    ELSE UlpsWithin(FNext(FT, a), b, k - 1)

\* ApproxEq::ulps_eq of the float type, on finite floats: within eps, or of
\* one sign and at most max_ulps floats apart.
ulps_eq(a, b, eps, max_ulps) ==
    \/ FLe(Abs(FSub(FT, a, b)), eps)
    \/ /\ (a < 0) = (b < 0)
       /\ IF Abs(a) <= Abs(b) THEN UlpsWithin(Abs(a), Abs(b), max_ulps)
          ELSE UlpsWithin(Abs(b), Abs(a), max_ulps)

\* relative_eq and ulps_eq of a colour type: every channel agrees.
Variant_relative_eq(variant, s, o, eps, max_relative) ==
    \A i \in 1 .. 3 :
        relative_eq(channels(variant, s)[i], channels(variant, o)[i], eps, max_relative)

Variant_ulps_eq(variant, s, o, eps, max_ulps) ==
    \A i \in 1 .. 3 :
        ulps_eq(channels(variant, s)[i], channels(variant, o)[i], eps, max_ulps)

\* relative_eq that compares the channels whatever the variants are.
Color_relative_eq_any_variant(c, other, eps, max_relative) ==
    \A i \in 1 .. 3 :
        relative_eq(channels(c.variant, c.value)[i],
                    channels(other.variant, other.value)[i], eps, max_relative)

\* ApproxEq for Color: the match on (*self, *other).
Color_relative_eq(c, other, eps, max_relative) ==
    IF c.variant = other.variant
    THEN Variant_relative_eq(c.variant, c.value, other.value, eps, max_relative)
    ELSE FALSE

Color_ulps_eq(c, other, eps, max_ulps) ==
    IF c.variant = other.variant
    THEN Variant_ulps_eq(c.variant, c.value, other.value, eps, max_ulps)
    ELSE FALSE

\* ------------------------------------------------------------ Rgb to Xyz
\* The matrix of an RGB space is derived in exact arithmetic: a channel of the
\* matrix or of its product is a record [n, r] standing for
\* (n + r / MatDet) * 10^-5, with 0 <= r < MatDet.

\* The chromaticities (x, y, 1 - x - y) of the sRGB primaries red, green and
\* blue, in hundredths.
Srgb_primaries == <<<<64, 33, 3>>, <<30, 60, 10>>, <<15, 6, 79>>>>

\* D65's reference tristimulus values, in units of 10^-5.
D65_get_xyz == <<95047, 100000, 108883>>

\* The determinant of the matrix whose columns are a, b and c.
Det3(a, b, c) ==
      a[1] * (b[2] * c[3] - b[3] * c[2])
    - b[1] * (a[2] * c[3] - a[3] * c[2])
    + c[1] * (a[2] * b[3] - a[3] * b[2])

MatDet == Det3(Srgb_primaries[1], Srgb_primaries[2], Srgb_primaries[3])

\* Cramer's rule: the determinant with the white point in place of primary i.
\* ColDet(i) / MatDet is the weight of primary i that makes the three
\* primaries add up to the white point.
ColDet(i) ==
    LET col(j) == IF j = i THEN D65_get_xyz ELSE Srgb_primaries[j]
    IN  Det3(col(1), col(2), col(3))

\* d * p / MatDet as an exact channel, for d, p >= 0.
Scaled(d, p) ==
    LET t == (d % MatDet) * p
    IN  [n |-> (d \div MatDet) * p + t \div MatDet, r |-> t % MatDet]

\* rgb_to_xyz_matrix: column i is the image of primary i, its chromaticity
\* scaled by its weight.
rgb_to_xyz_matrix ==
    [i \in 1 .. 3 |-> [k \in 1 .. 3 |-> Scaled(ColDet(i), Srgb_primaries[i][k])]]

\* multiply_rgb_to_xyz: the matrix applied to the channels of a linear rgb.
multiply_rgb_to_xyz(mat, rgb) ==
    [k \in 1 .. 3 |->
        LET n == rgb[1] * mat[1][k].n + rgb[2] * mat[2][k].n + rgb[3] * mat[3][k].n
            r == rgb[1] * mat[1][k].r + rgb[2] * mat[2][k].r + rgb[3] * mat[3][k].r
        IN  [n |-> n + r \div MatDet, r |-> r % MatDet]]

\* A transfer function that squares, in place of the linear one.
into_linear_squared(x) == x * x

\* LinearFn::into_linear.
into_linear(x) == x

\* from_linear that brings the component into [0, 1].
from_linear_clamped(x) == clamp(x, 0, Unit)

\* LinearFn::from_linear.
from_linear(x) == x

\* Rgb::into_linear for a linear-encoded Rgb.
Rgb_into_linear(rgb) == [i \in 1 .. 3 |-> into_linear(rgb[i])]

\* From<Rgb> for Xyz.
Xyz_from_rgb(rgb) == multiply_rgb_to_xyz(rgb_to_xyz_matrix, Rgb_into_linear(rgb))

\* ------------------------------------------------------------ Component
\* A value of an integer type is that integer; a value of a float type is a float.
Types == {"f32", "f64", "u8", "u16", "u32", "u64"}
Floats == {"f32", "f64"}

LIMITED(t) == t \notin Floats

Width(t) == IF t = "u8" THEN W8 ELSE IF t = "u16" THEN W16 ELSE IF t = "u32" THEN W32 ELSE W64

Format(t) == IF t = "f32" THEN F32 ELSE F64

max_intensity(t) == IF t \in Floats THEN Unit ELSE Pow2(Width(t)) - 1

\* What a call returns when an unwrap() of None panics instead.
Panic == PosInf + 2

\* The one element of a singleton set.
The(S) == CHOOSE x \in S : S = {x}

\* cast: NumCast::from(prim).unwrap(), as the set of results the build can
\* produce: num-traits is a dependency whose release the sources do not pin, and
\* its releases differ at the edges of a range.  An integer becomes the nearest
\* float.  A float becomes an integer by truncation when it lies in
\* (-1, MAX + 1); NaN, the infinities and every value beyond the float nearest
\* to MAX are None; between these, older releases (which admit MIN <= v <=
\* MAX as float, then saturate) and newer ones disagree.  A finite f64 beyond
\* f32's range is None in older releases and an infinity in newer ones.
cast(from, to, v) ==
    IF from \notin Floats
    THEN {RoundQ(Format(to), v * Unit, 1)}
    ELSE IF to \in Floats
    THEN (IF to = "f64" \/ from = "f32" \/ ~IsFinite(v) THEN {v}
          ELSE IF Abs(v) > MaxFin(F32) THEN {Panic, IF v < 0 THEN NegInf ELSE PosInf}
          ELSE {RoundQ(F32, v, 1)})
    ELSE LET MAX == Pow2(Width(to)) - 1
         IN  IF ~IsFinite(v) THEN {Panic}
             ELSE IF v >= 0 /\ v < (MAX + 1) * Unit THEN {v \div Unit}
             ELSE IF v > 0 - Unit /\ v < 0 THEN {0, Panic}
             ELSE IF v >= 0 /\ v <= RoundQ(F64, MAX * Unit, 1) THEN {MAX, Panic}
             ELSE {Panic}

\* Component::convert of a value v of type s into type d, as the set of results
\* the build can produce.  A float source computes in its own type, an integer
\* source in f64.
convert(s, d, v) ==
    LET w == IF s \in Floats THEN s ELSE "f64"
        fm == Format(w)
        dmax == The(cast(d, w, max_intensity(d)))
        scaled == IF s \in Floats
                  THEN FMul(fm, v, dmax)
                  ELSE FMul(fm, dmax, FDiv(fm, The(cast(s, w, v)), The(cast(s, w, max_intensity(s)))))
    IN  IF LIMITED(d)
        THEN cast(w, d, clamp(scaled, 0, dmax))
        ELSE cast(w, d, scaled)

\* ------------------------------------------------------------ the inputs
V(num, den) == Lit(FT, num, den)

LVals == {NaN, NegInf, V(0 - 1, 1), 0, V(1, 2), V(100, 1), V(104, 1), PosInf}
CVals == {NaN, V(0 - 1, 1), 0, V(1, 2), V(250, 1), PosInf}
HVals == {NaN, V(0 - 90, 1), 0, V(1, 2), V(24, 1), V(350, 1), V(720, 1)}
LchIn == {Lch(l, c, h) : l \in LVals, c \in CVals, h \in HVals}

Amounts == {NaN, NegInf, V(0 - 2, 1), V(0 - 1, 2), 0, V(1, 32), V(1, 2), Unit,
            V(3, 1), PosInf}
HueAmounts == {NaN, V(0 - 360, 1), 0, V(1, 2), V(360, 1), V(720, 1), MaxFin(FT)}

\* The receivers and factors of saturate: those above, the smallest positive
\* chroma, and the factors -1 and the float just below it.
SaturateIn == LchIn \cup {Lch(Unit \div 2, c, 0) : c \in {1, 2, Unit}}
SaturateAmounts == Amounts \cup {0 - Unit, 0 - Unit - 1}

LchMixIn == {Lch(l, c, h) : l \in {0, V(1, 2), V(100, 1), PosInf},
                            c \in {0, V(1, 2)},
                            h \in {0, V(8, 1), V(188, 1), V(350, 1)}}
Factors == {NaN, NegInf, V(0 - 1, 2), 0, Unit \div 4, V(1, 2), 3 * (Unit \div 4), Unit,
            V(3, 2), PosInf}

XVals == {NaN, NegInf, V(0 - 1, 2), 0, V(1, 2), X_N, Y_N, Z_N, V(100, 1), PosInf}
XyzIn == {Xyz(x, y, z) : x \in XVals, y \in XVals, z \in XVals \ {NegInf, V(100, 1)}}
XyzShadeIn == {Xyz(x, y, z) : x \in {NaN, 0, V(1, 2)}, y \in XVals, z \in {0, PosInf}}
XyzMixIn == {Xyz(x, y, z) : x \in {NaN, 0, V(1, 2), V(100, 1), 0 - MaxFin(FT), MaxFin(FT)},
                            y \in {0, Unit},
                            z \in {V(1, 2), PosInf}}

\* The Colors of a variant; the Lch variant holds modelled Lch values, the
\* others opaque ones.
ColorIn(v) ==
    IF v = "Lch"
    THEN {Color(v, c) : c \in {Lch(V(1, 2), ch, 0) : ch \in CVals}}
    ELSE {Color(v, k) : k \in {"c1", "c2"}}

\* Alpha-wrapped colours of the variant v; the alpha is any float.
AlphaVals == {NaN, NegInf, V(0 - 1, 2), 0, V(1, 4), V(1, 2), Unit, V(2, 1), PosInf}
AlphaIn(v) == {Alpha(c.value, a) : c \in ColorIn(v), a \in AlphaVals}

\* Lab values: l in and around [0, 100], a and b in and around [-128, 127].
LabLs == {NaN, NegInf, V(0 - 16, 1), 0, V(1, 1), V(8, 1), V(50, 1), V(100, 1), V(150, 1), PosInf}
LabAs == {NaN, V(0 - 128, 1), V(0 - 20, 1), 0, V(50, 1), V(127, 1), PosInf}
LabIn == {Lab(l, a, b) : l \in LabLs, a \in LabAs, b \in LabAs}

\* The arguments of the helper: every float of [-1/2, 2], which has the
\* threshold inside, and the special values.
ConvertIn ==
    {c \in (0 - Unit) \div 2 .. 2 * Unit : RoundQ(FT, c, 1) = c}
        \cup {NaN, NegInf, PosInf, V(0 - 4, 1), V(5, 1)}

\* The exact arguments n / (29 * Grid) of the helper, from -1/2 to 2.
ExactIn == 0 - (29 * Grid) \div 2 .. 2 * 29 * Grid

\* Lab values in the aligned directions; the squares of the largest a and b
\* overflow, those of the smallest underflow.
LabABs ==
    {NaN, NegInf, V(0 - 200, 1), V(0 - 128, 1), V(0 - 3, 1), V(0 - 1, 1), V(0 - 1, 32), 0,
     V(1, 32), V(1, 2), Unit, V(3, 1), V(4, 1), V(127, 1), V(200, 1), PosInf}
LabAlignedIn ==
    {Lab(l, a, b) : l \in {NaN, 0, V(50, 1), V(100, 1), V(150, 1)},
                    <<a, b>> \in {p \in LabABs \X LabABs : Aligned(p[1], p[2])}}

\* Linear rgb values with channels 0, 1 and 2 (2 is out of gamut, and legal).
RgbIn == {<<r, g, b>> : r \in 0 .. 2, g \in 0 .. 2, b \in 0 .. 2}

\* Linear luma values.
LumaIn ==
    {NaN, NegInf, V(0 - 1, 1), 0, 1, V(1, 4), V(1, 2), V(3, 4), Unit, V(2, 1),
     V(100, 1), MaxFin(FT), PosInf}

\* Yxy values: chromaticity y that is NaN, infinite, zero, subnormal (of either
\* sign) and normal.
YxyIn ==
    {Yxy(x, y, l) :
        x \in {NaN, V(0 - 1, 1), 0, V(1, 2), Unit, PosInf},
        y \in {NaN, NegInf, V(0 - 2, 1), V(0 - 1, 2), 0, 1, V(1, 2),
               MinNormal(FT) - 1, MinNormal(FT), V(3, 2), V(2, 1), PosInf},
        l \in {NaN, NegInf, 0, V(1, 2), Unit, V(3, 1), MaxFin(FT), PosInf}}

\* Raw slices of 0 to 4 components.
RawVals == {NaN, V(0 - 1, 1), 0, V(1, 2), V(200, 1)}
RawIn == UNION {[1 .. n -> RawVals] : n \in 0 .. 4}

\* Gradients with explicit domains: the one of the example, with three
\* keyframes at 0, 0.25 and 1, and others of one to five keyframes, one of them
\* with a repeated position.
Key(k) ==
    <<Xyz(Unit, Unit \div 8, Unit \div 8), Xyz(Unit \div 8, Unit \div 8, Unit),
      Xyz(Unit \div 8, Unit, Unit \div 8), Xyz(Unit \div 2, Unit \div 2, Unit \div 2),
      Xyz(0, 2 * Unit, 0)>>[k]
GradientIn ==
    {<<<<0, Key(1)>>, <<Unit \div 4, Key(2)>>, <<Unit, Key(3)>>>>,
     <<<<Unit \div 2, Key(4)>>>>,
     <<<<0 - Unit, Key(3)>>, <<3 * Unit, Key(1)>>>>,
     <<<<0, Key(1)>>, <<Unit \div 4, Key(2)>>, <<Unit \div 4, Key(5)>>, <<Unit, Key(3)>>>>,
     <<<<0, Key(5)>>, <<Unit \div 4, Key(4)>>, <<Unit \div 2, Key(3)>>,
       <<3 * (Unit \div 4), Key(2)>>, <<Unit, Key(1)>>>>}
Queries ==
    {NegInf, 0 - 2 * Unit, 0 - Unit \div 2, 0, Unit \div 32, Unit \div 8, Unit \div 4,
     3 * (Unit \div 8), Unit \div 2, 5 * (Unit \div 8), 3 * (Unit \div 4), 7 * (Unit \div 8),
     Unit, 3 * (Unit \div 2), 3 * Unit, 4 * Unit, PosInf}

\* The source values of convert: every integer of an integer type, and floats
\* inside, on the edge of and outside [0, 1].
SrcVals(t) ==
    IF t \notin Floats THEN 0 .. max_intensity(t)
    ELSE IF t = "f32"
    THEN {NaN, NegInf, 0 - Unit, 0 - Pow2(Low32), 0, Pow2(Low32), Unit \div 2, Unit,
          Unit + Pow2(Low32), 2 * Unit, MaxFin(F32), PosInf}
    ELSE {NaN, NegInf, 0 - MaxFin(F64), 0 - Unit, 0 - 1, 0, 1, Unit \div 2, Unit - 1, Unit,
          Unit + 1, 2 * Unit, MaxFin(F32), MaxFin(F32) + Pow2(Top), MaxFin(F64), PosInf}

\* Colors for the approximate comparisons: three variants over the same finite
\* channel values, two of them one float apart, and with every Yxy its Xyz.
ApproxVariants == {"Xyz", "Yxy", "Lab"}
ApproxVals == {0, Unit \div 2, Unit \div 2 + 1, Unit}
ApproxIn(v) ==
    IF v = "Xyz"
    THEN {Xyz(x, y, 0) : x \in ApproxVals, y \in {0, Unit}}
             \cup {Xyz_from_yxy(Yxy(x, Unit \div 2, Unit)) : x \in ApproxVals}
    ELSE IF v = "Yxy"
    THEN {Yxy(x, Unit \div 2, l) : x \in ApproxVals, l \in {0, Unit}}
    ELSE {Lab(l, a, 0) : l \in ApproxVals, a \in {0, Unit}}
Epsilons == {0, 1}
MaxRelatives == {0, Unit \div 8}
MaxUlps == {0, 4}

\* ------------------------------------------------------------ the state
\* One call of the library: the operation, its receiver, its other operand,
\* its scalar argument and what it returned.
VARIABLES pc, call, recv, arg, amt, ret

vars == <<pc, call, recv, arg, amt, ret>>

Nil == <<"nil">>

Init ==
    /\ pc = "ready"
    /\ call = "none"
    /\ recv = Nil
    /\ arg = Nil
    /\ amt = Nil
    /\ ret = Nil

Done(name, c, o, a, r) ==
    /\ pc' = "done"
    /\ call' = name
    /\ recv' = c
    /\ arg' = o
    /\ amt' = a
    /\ ret' = r

LchIsValid ==
    /\ pc = "ready"
    /\ \E c \in LchIn :
        Done("Lch::is_valid", c, Nil, Nil, Lch_is_valid(c))
LchClamp ==
    /\ pc = "ready"
    /\ \E c \in LchIn :
        Done("Lch::clamp", c, Nil, Nil, Lch_clamp(c))
LchMix ==
    /\ pc = "ready"
    /\ \E c \in LchMixIn, o \in LchMixIn, f \in Factors :
        Done("Lch::mix", c, o, f, Lch_mix(c, o, f))
LchLighten ==
    /\ pc = "ready"
    /\ \E c \in LchIn, x \in Amounts :
        Done("Lch::lighten", c, Nil, x, Lch_lighten(c, x))
LchDarken ==
    /\ pc = "ready"
    /\ \E c \in LchIn, x \in Amounts :
        Done("Lch::darken", c, Nil, x, Lch_darken(c, x))
LchGetHue ==
    /\ pc = "ready"
    /\ \E c \in LchIn :
        Done("Lch::get_hue", c, Nil, Nil, Lch_get_hue(c))
LchWithHue ==
    /\ pc = "ready"
    /\ \E c \in LchIn, h \in HueAmounts :
        Done("Lch::with_hue", c, Nil, h, Lch_with_hue(c, h))
LchShiftHue ==
    /\ pc = "ready"
    /\ \E c \in LchIn, x \in HueAmounts :
        Done("Lch::shift_hue", c, Nil, x, Lch_shift_hue(c, x))
LchSaturate ==
    /\ pc = "ready"
    /\ \E c \in SaturateIn, x \in SaturateAmounts :
        Done("Lch::saturate", c, Nil, x, Lch_saturate(c, x))
LchDesaturate ==
    /\ pc = "ready"
    /\ \E c \in LchIn, x \in Amounts :
        Done("Lch::desaturate", c, Nil, x, Lch_desaturate(c, x))

XyzIsValid ==
    /\ pc = "ready"
    /\ \E c \in XyzIn :
        Done("Xyz::is_valid", c, Nil, Nil, Xyz_is_valid(c))
XyzClamp ==
    /\ pc = "ready"
    /\ \E c \in XyzIn :
        Done("Xyz::clamp", c, Nil, Nil, Xyz_clamp(c))
XyzMix ==
    /\ pc = "ready"
    /\ \E c \in XyzMixIn, o \in XyzMixIn, f \in Factors :
        Done("Xyz::mix", c, o, f, Xyz_mix(c, o, f))
XyzLighten ==
    /\ pc = "ready"
    /\ \E c \in XyzShadeIn, x \in Amounts :
        Done("Xyz::lighten", c, Nil, x, Xyz_lighten(c, x))
XyzDarken ==
    /\ pc = "ready"
    /\ \E c \in XyzShadeIn, x \in Amounts :
        Done("Xyz::darken", c, Nil, x, Xyz_darken(c, x))

ColorLighten ==
    /\ pc = "ready"
    /\ \E v \in Variants :
      \E c \in ColorIn(v), x \in Amounts :
        Done("Color::lighten", c, Nil, x, Color_lighten(c, x))
ColorDarken ==
    /\ pc = "ready"
    /\ \E v \in Variants :
      \E c \in ColorIn(v), x \in Amounts :
        Done("Color::darken", c, Nil, x, Color_darken(c, x))
ColorSaturate ==
    /\ pc = "ready"
    /\ \E v \in Variants :
      \E c \in ColorIn(v), x \in Amounts :
        Done("Color::saturate", c, Nil, x, Color_saturate(c, x))
ColorDesaturate ==
    /\ pc = "ready"
    /\ \E v \in Variants :
      \E c \in ColorIn(v), x \in Amounts :
        Done("Color::desaturate", c, Nil, x, Color_desaturate(c, x))

ColorMix ==
    /\ pc = "ready"
    /\ \E v \in Variants, w \in Variants :
      \E c \in ColorIn(v), o \in ColorIn(w), f \in {0, V(1, 2), Unit} :
        Done("Color::mix", c, o, f, Color_mix(c, o, f))
ColorWithHue ==
    /\ pc = "ready"
    /\ \E v \in Variants :
      \E c \in ColorIn(v), h \in HVals :
        Done("Color::with_hue", c, Nil, h, Color_with_hue(c, h))
ColorShiftHue ==
    /\ pc = "ready"
    /\ \E v \in Variants :
      \E c \in ColorIn(v), x \in HueAmounts :
        Done("Color::shift_hue", c, Nil, x, Color_shift_hue(c, x))

XyzFromRgb ==
    /\ pc = "ready"
    /\ \E rgb \in RgbIn :
        Done("Xyz::from(Rgb)", rgb, Nil, Nil, Xyz_from_rgb(rgb))

XyzFromLuma ==
    /\ pc = "ready"
    /\ \E l \in LumaIn :
        Done("Xyz::from(Luma)", l, Nil, Nil, Xyz_from_luma(l))

XyzFromYxy ==
    /\ pc = "ready"
    /\ \E c \in YxyIn :
        Done("Xyz::from(Yxy)", c, Nil, Nil, Xyz_from_yxy(c))

LchIntoRaw ==
    /\ pc = "ready"
    /\ \E c \in LchIn :
        Done("Lch::into_raw", c, Nil, Nil, Lch_into_raw(c))
LchFromRaw ==
    /\ pc = "ready"
    /\ \E raw \in RawIn :
        Done("Lch::from_raw", raw, Nil, Nil, Lch_from_raw(raw))
XyzIntoRaw ==
    /\ pc = "ready"
    /\ \E c \in XyzMixIn :
        Done("Xyz::into_raw", c, Nil, Nil, Xyz_into_raw(c))
XyzFromRaw ==
    /\ pc = "ready"
    /\ \E raw \in RawIn :
        Done("Xyz::from_raw", raw, Nil, Nil, Xyz_from_raw(raw))

ColorFromAlpha ==
    /\ pc = "ready"
    /\ \E v \in Variants :
      \E c \in AlphaIn(v) :
        Done("Color::from(Alpha)", c, v, Nil, Color_from_alpha(v, c))
ColoraFromAlpha ==
    /\ pc = "ready"
    /\ \E v \in Variants :
      \E c \in AlphaIn(v) :
        Done("Colora::from(Alpha)", c, v, Nil, Colora_from_alpha(v, c))

XyzFromLab ==
    /\ pc = "ready"
    /\ \E c \in LabIn :
        Done("Xyz::from(Lab)", c, Nil, Nil, Xyz_from_lab(c))
XyzFromLabConvert ==
    /\ pc = "ready"
    /\ \E c \in ConvertIn :
        Done("Xyz::from(Lab)::convert", Nil, c, Nil, Xyz_from_lab_convert(c))

XyzFromLabConvertExact ==
    /\ pc = "ready"
    /\ \E n \in ExactIn :
        Done("Xyz::from(Lab)::convert, exact", Nil, n, Nil, Xyz_from_lab_convert_exact(n))

LchFromLab ==
    /\ pc = "ready"
    /\ \E c \in LabAlignedIn :
        Done("Lch::from(Lab)", c, Nil, Nil, Lch_from_lab(c))

XyzComponentWise ==
    /\ pc = "ready"
    /\ \E c \in XyzMixIn, o \in XyzMixIn, f \in {"add", "sub", "mul", "div", "nth"} :
        Done("Xyz::component_wise", c, o, f, Xyz_component_wise(c, o, f))
XyzComponentWiseSelf ==
    /\ pc = "ready"
    /\ \E c \in XyzMixIn, f \in {"neg", "double", "nth"} :
        Done("Xyz::component_wise_self", c, Nil, f, Xyz_component_wise_self(c, f))
XyzAdd ==
    /\ pc = "ready"
    /\ \E c \in XyzMixIn, o \in XyzMixIn :
        Done("Xyz::add", c, o, Nil, Xyz_add(c, o))
XyzSub ==
    /\ pc = "ready"
    /\ \E c \in XyzMixIn, o \in XyzMixIn :
        Done("Xyz::sub", c, o, Nil, Xyz_sub(c, o))
XyzMul ==
    /\ pc = "ready"
    /\ \E c \in XyzMixIn, o \in XyzMixIn :
        Done("Xyz::mul", c, o, Nil, Xyz_mul_xyz(c, o))
XyzDiv ==
    /\ pc = "ready"
    /\ \E c \in XyzMixIn, o \in XyzMixIn :
        Done("Xyz::div", c, o, Nil, Xyz_div(c, o))

LinearIntoLinear ==
    /\ pc = "ready"
    /\ \E x \in LumaIn \cup Amounts :
        Done("LinearFn::into_linear", Nil, x, Nil, into_linear(x))
LinearFromLinear ==
    /\ pc = "ready"
    /\ \E x \in LumaIn \cup Amounts :
        Done("LinearFn::from_linear", Nil, x, Nil, from_linear(x))

ColorRelativeEq ==
    /\ pc = "ready"
    /\ \E v \in ApproxVariants, w \in ApproxVariants :
        \E s \in ApproxIn(v) :
            \E o \in ApproxIn(w) :
                \E e \in Epsilons, mr \in MaxRelatives :
                    Done("Color::relative_eq", Color(v, s), Color(w, o), <<e, mr>>,
                         Color_relative_eq(Color(v, s), Color(w, o), e, mr))

ColorUlpsEq ==
    /\ pc = "ready"
    /\ \E v \in ApproxVariants, w \in ApproxVariants :
        \E s \in ApproxIn(v) :
            \E o \in ApproxIn(w) :
                \E e \in Epsilons, mu \in MaxUlps :
                    Done("Color::ulps_eq", Color(v, s), Color(w, o), <<e, mu>>,
                         Color_ulps_eq(Color(v, s), Color(w, o), e, mu))

GradientGet ==
    /\ pc = "ready"
    /\ \E g \in GradientIn, t \in Queries :
        Done("Gradient::get", g, Nil, t, Gradient_get(g, t))

Convert ==
    /\ pc = "ready"
    /\ \E s \in Types, d \in Types :
        \E v \in SrcVals(s) :
            \E r \in convert(s, d, v) :
                Done("convert", v, <<s, d>>, Nil, r)

Next ==
    \/ LchIsValid \/ LchClamp \/ LchMix \/ LchLighten \/ LchDarken \/ LchGetHue
    \/ LchWithHue \/ LchShiftHue \/ LchSaturate \/ LchDesaturate
    \/ XyzIsValid \/ XyzClamp \/ XyzMix \/ XyzLighten \/ XyzDarken
    \/ ColorLighten \/ ColorDarken \/ ColorSaturate \/ ColorDesaturate
    \/ ColorMix \/ ColorWithHue \/ ColorShiftHue
    \/ XyzFromRgb \/ XyzFromLuma \/ XyzFromYxy
    \/ LchIntoRaw \/ LchFromRaw \/ XyzIntoRaw \/ XyzFromRaw
    \/ GradientGet \/ ColorFromAlpha \/ ColoraFromAlpha
    \/ LinearIntoLinear \/ LinearFromLinear
    \/ XyzComponentWise \/ XyzComponentWiseSelf \/ XyzAdd \/ XyzSub \/ XyzMul \/ XyzDiv
    \/ XyzFromLab \/ XyzFromLabConvert \/ XyzFromLabConvertExact \/ LchFromLab
    \/ ColorRelativeEq \/ ColorUlpsEq
    \/ Convert

Spec == Init /\ [][Next]_vars

\* ============================================================ the claims
C100 == Lit(FT, 100, 1)
C360 == Lit(FT, 360, 1)

\* C1 (as stated): for every Lch and Xyz value c, clamp(clamp(c)) = clamp(c)
\* and is_valid(clamp(c)) is true.
C1_ClampIdempotentValid ==
    /\ call = "Lch::clamp" => Lch_is_valid(ret) /\ Lch_clamp(ret) = ret
    /\ call = "Xyz::clamp" => Xyz_is_valid(ret) /\ Xyz_clamp(ret) = ret

\* C2 (as stated): mix returns its receiver for every factor <= 0 and its other
\* operand for every factor >= 1 (the hue of an Lch modulo 360), and the
\* per-channel midpoint of two Xyz at factor 0.5.
Midpoint(a, b) ==
    IF IsFinite(a) /\ IsFinite(b)
    THEN RoundQ(FT, a + b, 2)
    ELSE FDiv(FT, FAdd(FT, a, b), 2 * Unit)

C2_MixEndpoints ==
    /\ call = "Xyz::mix" =>
        /\ FLe(amt, 0) => ret = recv
        /\ FGe(amt, Unit) => ret = arg
        /\ amt = Unit \div 2 =>
            ret = Xyz(Midpoint(recv.x, arg.x), Midpoint(recv.y, arg.y), Midpoint(recv.z, arg.z))
    /\ call = "Lch::mix" =>
        /\ FLe(amt, 0) =>
            /\ ret.l = recv.l
            /\ ret.chroma = recv.chroma
            /\ to_degrees(ret.hue) = to_degrees(recv.hue)
        /\ FGe(amt, Unit) =>
            /\ ret.l = arg.l
            /\ ret.chroma = arg.chroma
            /\ to_degrees(ret.hue) = to_degrees(arg.hue)

\* C3 (as stated): lighten(c, x) = darken(c, -x), darken(c, x) = lighten(c, -x),
\* and lightening by x and then darkening by x restores the lightness channel.
C3_LightenThenDarkenRestores ==
    /\ call = "Lch::lighten" =>
        ret = Lch_darken(recv, FNeg(amt)) /\ Lch_darken(ret, amt).l = recv.l
    /\ call = "Xyz::lighten" =>
        ret = Xyz_darken(recv, FNeg(amt)) /\ Xyz_darken(ret, amt).y = recv.y
    /\ call = "Color::lighten" => ret = Color_darken(recv, FNeg(amt))
    /\ call = "Lch::darken" => ret = Lch_lighten(recv, FNeg(amt))
    /\ call = "Xyz::darken" => ret = Xyz_lighten(recv, FNeg(amt))
    /\ call = "Color::darken" => ret = Color_lighten(recv, FNeg(amt))

\* The float addition a + b = r lost nothing: r is the exact, finite sum.
ExactSum(a, b, r) == IsFinite(a) /\ IsFinite(b) /\ IsFinite(r) /\ r = a + b

\* C3 (amended): lighten(c, x) = darken(c, -x) and darken(c, x) = lighten(c, -x)
\* for Lch, Xyz and Color; lightening by x and then darkening by x restores the
\* lightness channel of an Lch or Xyz whenever the addition lighten made was exact.
C3_LightenIsDarkenNegated ==
    /\ call = "Lch::lighten" =>
        /\ ret = Lch_darken(recv, FNeg(amt))
        /\ ExactSum(recv.l, FMul(FT, amt, C100), ret.l) => Lch_darken(ret, amt).l = recv.l
    /\ call = "Xyz::lighten" =>
        /\ ret = Xyz_darken(recv, FNeg(amt))
        /\ ExactSum(recv.y, amt, ret.y) => Xyz_darken(ret, amt).y = recv.y
    /\ call = "Color::lighten" => ret = Color_darken(recv, FNeg(amt))
    /\ call = "Lch::darken" => ret = Lch_lighten(recv, FNeg(amt))
    /\ call = "Xyz::darken" => ret = Xyz_lighten(recv, FNeg(amt))
    /\ call = "Color::darken" => ret = Color_lighten(recv, FNeg(amt))

\* C3's case: an Lch was lightened by a finite amount that is not zero, the
\* addition was exact and moved the lightness, and darkening the result by the
\* same amount gives the lightness back.
C3_Witness ==
    /\ call = "Lch::lighten"
    /\ IsFinite(amt) /\ amt # 0
    /\ ExactSum(recv.l, FMul(FT, amt, C100), ret.l)
    /\ ret.l # recv.l
    /\ Lch_darken(ret, amt).l = recv.l

\* C4: saturate(c, x) = desaturate(c, -x) and desaturate(c, x) = saturate(c, -x)
\* for Lch and the generic Color.
C4_SaturateIsDesaturateNegated ==
    /\ call = "Lch::saturate" => ret = Lch_desaturate(recv, FNeg(amt))
    /\ call = "Lch::desaturate" => ret = Lch_saturate(recv, FNeg(amt))
    /\ call = "Color::saturate" => ret = Color_desaturate(recv, FNeg(amt))
    /\ call = "Color::desaturate" => ret = Color_saturate(recv, FNeg(amt))

\* C4's case: an Lch of positive chroma was desaturated by a finite amount that
\* is not zero, and its chroma changed.
C4_Witness ==
    /\ call = "Lch::desaturate"
    /\ IsFinite(amt) /\ amt # 0
    /\ IsFinite(recv.chroma) /\ recv.chroma > 0
    /\ ret.chroma # recv.chroma

\* C5 (as stated): get_hue is None exactly when chroma <= 0 and Some(the stored
\* hue) exactly when chroma > 0.
C5_SomeIffChromaPositive ==
    call = "Lch::get_hue" =>
        /\ ret = None <=> (~IsNaN(recv.chroma) /\ recv.chroma <= 0)
        /\ ret = Some(recv.hue) <=> (~IsNaN(recv.chroma) /\ recv.chroma > 0)

\* C5 (amended): get_hue is None exactly when chroma <= 0, whatever the hue
\* field holds, and Some(the stored hue) in every other case: when chroma > 0
\* and when chroma is NaN.
C5_NoneIffChromaNotPositive ==
    call = "Lch::get_hue" =>
        /\ ret = None <=> (~IsNaN(recv.chroma) /\ recv.chroma <= 0)
        /\ ret = Some(recv.hue) <=> (IsNaN(recv.chroma) \/ recv.chroma > 0)

\* C5's case: get_hue of a grey (chroma exactly 0) whose hue field is not 0.
C5_Witness ==
    call = "Lch::get_hue" /\ recv.chroma = 0 /\ IsFinite(recv.hue) /\ recv.hue # 0 /\ ret = None

\* C6 (as stated): shift_hue(c, 360) has c's hue modulo 360 and c's l and chroma.
C6_ShiftBy360KeepsHue ==
    (call = "Lch::shift_hue" /\ amt = C360) =>
        /\ ret.l = recv.l
        /\ ret.chroma = recv.chroma
        /\ to_degrees(ret.hue) = to_degrees(recv.hue)

\* C6 (amended): shift_hue leaves l and chroma unchanged and stores the float
\* sum hue + amount; after a shift by 360 the hue is the receiver's modulo 360
\* whenever that sum is exact.
C6_ShiftHueAddsAmount ==
    call = "Lch::shift_hue" =>
        /\ ret.l = recv.l
        /\ ret.chroma = recv.chroma
        /\ ret.hue = FAdd(FT, recv.hue, amt)
        /\ (amt = C360 /\ ExactSum(recv.hue, amt, ret.hue)) =>
            to_degrees(ret.hue) = to_degrees(recv.hue)

\* C6's case: a hue that is not 0 was shifted by 360 and the sum was exact.
C6_Witness ==
    /\ call = "Lch::shift_hue"
    /\ amt = C360
    /\ recv.hue # 0
    /\ ExactSum(recv.hue, amt, ret.hue)
\* C7: for Lch, is_valid holds iff 0 <= l <= 100 and chroma >= 0, whatever the
\* hue; clamp maps l below 0 to 0 and l above 100 to 100, maps chroma below 0
\* to 0, keeps every l in range and every chroma >= 0 (however large) unchanged,
\* and never changes hue.
C7_LchRanges ==
    /\ call = "Lch::is_valid" =>
        (ret <=> /\ ~IsNaN(recv.l) /\ 0 <= recv.l /\ recv.l <= C100
                 /\ ~IsNaN(recv.chroma) /\ recv.chroma >= 0)
    /\ call = "Lch::clamp" =>
        /\ ret.hue = recv.hue
        /\ ~IsNaN(recv.l) =>
            ret.l = IF recv.l < 0 THEN 0 ELSE IF recv.l > C100 THEN C100 ELSE recv.l
        /\ ~IsNaN(recv.chroma) =>
            ret.chroma = IF recv.chroma < 0 THEN 0 ELSE recv.chroma

\* C7's case: clamp of an Lch whose l is above 100 and whose chroma is above
\* 200: l comes back as 100 and the chroma as it was.
C7_Witness ==
    /\ call = "Lch::clamp"
    /\ IsFinite(recv.l) /\ recv.l > C100
    /\ IsFinite(recv.chroma) /\ recv.chroma > Lit(FT, 200, 1)
    /\ ret.l = C100
    /\ ret.chroma = recv.chroma

\* The value of v once clamped to [0, n], for v that is not NaN.
Within(v, n) == IF v < 0 THEN 0 ELSE IF v > n THEN n ELSE v

\* C8: for Xyz with white point D65, is_valid holds iff 0 <= x <= X_N,
\* 0 <= y <= Y_N and 0 <= z <= Z_N; clamp brings each channel into its own
\* interval independently of the other two, so a channel in range is unchanged
\* even when another one is clamped.
C8_XyzRanges ==
    /\ call = "Xyz::is_valid" =>
        (ret <=> /\ ~IsNaN(recv.x) /\ 0 <= recv.x /\ recv.x <= X_N
                 /\ ~IsNaN(recv.y) /\ 0 <= recv.y /\ recv.y <= Y_N
                 /\ ~IsNaN(recv.z) /\ 0 <= recv.z /\ recv.z <= Z_N)
    /\ call = "Xyz::clamp" =>
        /\ ~IsNaN(recv.x) => ret.x = Within(recv.x, X_N)
        /\ ~IsNaN(recv.y) => ret.y = Within(recv.y, Y_N)
        /\ ~IsNaN(recv.z) => ret.z = Within(recv.z, Z_N)

\* C8's case: clamp of an Xyz whose x is above X_N, whose y is strictly inside
\* its interval and whose z is Z_N: x is clamped, y and z are unchanged.
C8_Witness ==
    /\ call = "Xyz::clamp"
    /\ IsFinite(recv.x) /\ recv.x > X_N
    /\ recv.y > 0 /\ recv.y < Y_N
    /\ recv.z = Z_N
    /\ ret = Xyz(X_N, recv.y, Z_N)

\* C9 (as stated): convert into a limited type (u8, u16, u32, u64) always gives
\* a result in [0, dest_max]; convert into an unlimited type (f32, f64) does not
\* clamp, so a float source above 1 gives a result above 1 and a float source
\* below 0 a result below 0.
C9_ClampOnlyWhenLimited ==
    call = "convert" =>
        /\ LIMITED(arg[2]) => ret \in 0 .. max_intensity(arg[2])
        /\ (~LIMITED(arg[2]) /\ ~LIMITED(arg[1])) =>
            /\ FGt(recv, Unit) => (ret # Panic /\ FGt(ret, Unit))
            /\ FLt(recv, 0) => (ret # Panic /\ FLt(ret, 0))

\* C10 (as stated): convert completes for every pair of component types and
\* every source value, maps 0 to 0 and the source's max intensity to the
\* destination's max intensity.
C10_ConvertCompletes ==
    call = "convert" =>
        /\ ret # Panic
        /\ recv = 0 => ret = 0
        /\ recv = max_intensity(arg[1]) => ret = max_intensity(arg[2])
\* The calls of the generic Color that return a Color.
ColorCalls ==
    {"Color::mix", "Color::lighten", "Color::darken", "Color::with_hue",
     "Color::shift_hue", "Color::saturate", "Color::desaturate"}

\* C11 (as stated): every algebra operation on the generic Color returns a Color
\* in the same variant as the receiver.
C11_ReturnsReceiverVariant ==
    call \in ColorCalls => ret.variant = recv.variant

\* C11 (amended): an algebra operation on the generic Color converts to its
\* canonical space and operates there, and does not convert back: the result is
\* in the receiver's variant only when the receiver already was in the
\* canonical space (Rgb for mix, Lab for lighten/darken, Lch for the others).
C11_ReceiverVariantOnlyIfCanonical ==
    /\ call = "Color::mix" => (ret.variant = recv.variant <=> recv.variant = "Rgb")
    /\ call \in {"Color::lighten", "Color::darken"} =>
        (ret.variant = recv.variant <=> recv.variant = "Lab")
    /\ call \in {"Color::with_hue", "Color::shift_hue", "Color::saturate", "Color::desaturate"} =>
        (ret.variant = recv.variant <=> recv.variant = "Lch")

\* C11's case: an Rgb Color was lightened and came back as another variant.
C11_Witness ==
    call = "Color::lighten" /\ recv.variant = "Rgb" /\ ret.variant # "Rgb"

\* C12: whatever variants the operands hold, mix returns the Rgb variant,
\* lighten and darken the Lab variant, and with_hue, shift_hue, saturate and
\* desaturate the Lch variant.
C12_VariantSelectedByOperation ==
    /\ call = "Color::mix" => ret.variant = "Rgb"
    /\ call = "Color::lighten" => ret.variant = "Lab"
    /\ call = "Color::darken" => ret.variant = "Lab"
    /\ call = "Color::with_hue" => ret.variant = "Lch"
    /\ call = "Color::shift_hue" => ret.variant = "Lch"
    /\ call = "Color::saturate" => ret.variant = "Lch"
    /\ call = "Color::desaturate" => ret.variant = "Lch"

\* C12's case: an Hsv Color was mixed with an Lch Color and the result is Rgb.
C12_Witness ==
    /\ call = "Color::mix"
    /\ recv.variant = "Hsv" /\ arg.variant = "Lch"
    /\ ret.variant = "Rgb"
\* An exact channel lies within 10^-4 of c * 10^-5.
Near(v, c) == v.n >= c - 10 /\ (v.n < c + 10 \/ (v.n = c + 10 /\ v.r = 0))

\* All three exact channels of v lie within 10^-4 of those of c.
Near3(v, c) == \A k \in 1 .. 3 : Near(v[k], c[k])

\* C13: converting linear sRGB to Xyz (D65) is the linear map that takes red to
\* (0.41240, 0.21260, 0.01930), green to (0.35760, 0.71520, 0.11920) and blue
\* to (0.18050, 0.07220, 0.95030) within 10^-4; no transfer function is
\* applied to a linear rgb, so a channel of 2 counts twice; and white (1, 1, 1)
\* goes to the white point.
C13_LinSrgbToXyz ==
    call = "Xyz::from(Rgb)" =>
        /\ recv = <<1, 0, 0>> => Near3(ret, <<41240, 21260, 1930>>)
        /\ recv = <<0, 1, 0>> => Near3(ret, <<35760, 71520, 11920>>)
        /\ recv = <<0, 0, 1>> => Near3(ret, <<18050, 7220, 95030>>)
        /\ recv = <<1, 1, 1>> =>
            ret = [k \in 1 .. 3 |-> [n |-> D65_get_xyz[k], r |-> 0]]
        /\ ret = multiply_rgb_to_xyz(
                    <<Xyz_from_rgb(<<1, 0, 0>>), Xyz_from_rgb(<<0, 1, 0>>),
                      Xyz_from_rgb(<<0, 0, 1>>)>>, recv)

\* C13's case: pure red was converted and y came out strictly between 0.2126
\* and 0.2127.
C13_Witness ==
    /\ call = "Xyz::from(Rgb)"
    /\ recv = <<1, 0, 0>>
    /\ ret[2].n = 21267
\* Two finite floats differ by at most one unit.
Close(a, b) == IsFinite(a) /\ IsFinite(b) /\ Abs(a - b) <= 1

\* The float nearest to num / den times the float a, for a finite a.
Times(num, den, a) == RoundQ(FT, num * a, den)

Degenerate(v) == IsNaN(v) \/ IsInf(v) \/ Abs(v) < MinNormal(FT)

\* C15: converting Yxy to Xyz gives a y equal to the input luma; when the
\* chromaticity y is zero, subnormal, NaN or infinite, x and z are both 0 and no
\* division is made; otherwise x = luma * x / y and z = luma * (1 - x - y) / y.
C15_YxyGuardsDenominator ==
    call = "Xyz::from(Yxy)" =>
        /\ ret.y = recv.luma
        /\ Degenerate(recv.y) => (ret.x = 0 /\ ret.z = 0)
        /\ ~Degenerate(recv.y) =>
            /\ ret.x = FDiv(FT, FMul(FT, recv.luma, recv.x), recv.y)
            /\ ret.z = FDiv(FT, FMul(FT, recv.luma,
                                     FSub(FT, FSub(FT, Unit, recv.x), recv.y)), recv.y)

\* C15's case: a Yxy with NaN for its chromaticity y and a luma and x that are
\* not zero was converted, and x and z came out 0.
C15_Witness ==
    /\ call = "Xyz::from(Yxy)"
    /\ IsNaN(recv.y)
    /\ recv.luma = Unit /\ recv.x = Unit \div 2
    /\ ret = Xyz(0, Unit, 0)
\* C16: Lch and Xyz each have 3 channels; into_raw gives the fields in declared
\* order (l, chroma, hue; x, y, z), from_raw(into_raw(c)) = c, from_raw of a
\* slice of 3 components reads them in that order, and a slice of any other
\* length is rejected.
C16_RawPixelRoundTrip ==
    /\ call = "Lch::into_raw" =>
        /\ Len(ret) = 3
        /\ ret[1] = recv.l /\ ret[2] = recv.chroma /\ ret[3] = recv.hue
        /\ Lch_from_raw(ret) = Ok(recv)
    /\ call = "Xyz::into_raw" =>
        /\ Len(ret) = 3
        /\ ret[1] = recv.x /\ ret[2] = recv.y /\ ret[3] = recv.z
        /\ Xyz_from_raw(ret) = Ok(recv)
    /\ call = "Lch::from_raw" =>
        /\ ret.ok <=> Len(recv) = 3
        /\ ret.ok => Lch_into_raw(ret.value) = recv
    /\ call = "Xyz::from_raw" =>
        /\ ret.ok <=> Len(recv) = 3
        /\ ret.ok => Xyz_into_raw(ret.value) = recv

\* C16's case: an Lch whose three channels differ went into a raw array.
C16_Witness ==
    /\ call = "Lch::into_raw"
    /\ IsFinite(recv.l) /\ IsFinite(recv.chroma) /\ IsFinite(recv.hue)
    /\ recv.l # recv.chroma /\ recv.chroma # recv.hue /\ recv.l # recv.hue
    /\ Lch_from_raw(ret) = Ok(recv)
\* C17: a gradient returns its first colour for every query at or below the
\* first position, its last colour for every query at or above the last
\* position, and for a query t strictly between two adjacent keyframes
\* (t0, c0), (t1, c1) the mix of c0 and c1 by (t - t0) / (t1 - t0); with the
\* domain 0, 0.25, 1 the query 0.125 gives the mix of the first two by 0.5.
C17_GradientGet ==
    call = "Gradient::get" =>
        /\ FLe(amt, recv[1][1]) => ret = recv[1][2]
        /\ FGe(amt, recv[Len(recv)][1]) => ret = recv[Len(recv)][2]
        /\ \A i \in 1 .. Len(recv) - 1 :
            (FLt(recv[i][1], amt) /\ FLt(amt, recv[i + 1][1])) =>
                ret = Xyz_mix(recv[i][2], recv[i + 1][2],
                              FDiv(FT, FSub(FT, amt, recv[i][1]),
                                   FSub(FT, recv[i + 1][1], recv[i][1])))
        /\ (Len(recv) = 3 /\ recv[1][1] = 0 /\ recv[2][1] = Unit \div 4
            /\ recv[3][1] = Unit /\ amt = Unit \div 8) =>
                ret = Xyz_mix(recv[1][2], recv[2][2], Unit \div 2)

\* C17's case: the gradient of the example was queried at 0.125 and the result
\* is neither of the two keyframes around it.
C17_Witness ==
    /\ call = "Gradient::get"
    /\ Len(recv) = 3 /\ recv[2][1] = Unit \div 4
    /\ amt = Unit \div 8
    /\ ret # recv[1][2] /\ ret # recv[2][2]
    /\ ret = Xyz_mix(recv[1][2], recv[2][2], Unit \div 2)
\* C18: converting an alpha-wrapped colour of a variant into an alpha-wrapped
\* Color keeps the alpha and puts the colour, channels unchanged, in the
\* matching variant; converting it into a plain Color gives the same variant
\* and channels, and no alpha.
C18_WrappingKeepsOpacityApart ==
    /\ call = "Colora::from(Alpha)" =>
        /\ ret.alpha = recv.alpha
        /\ ret.color.variant = arg
        /\ ret.color.value = recv.color
    /\ call = "Color::from(Alpha)" =>
        /\ ret.variant = arg
        /\ ret.value = recv.color
        /\ DOMAIN ret = {"variant", "value"}

\* C18's case: a half-transparent Lch colour was wrapped into a Colora.
C18_Witness ==
    /\ call = "Colora::from(Alpha)"
    /\ arg = "Lch"
    /\ recv.alpha = Unit \div 2
    /\ ret.alpha = Unit \div 2
    /\ ret.color = Color("Lch", recv.color)
\* g of C19, on floats: the cube above 6/29, the line below and at it.
C19_g(c) ==
    IF FGt(c, Lit(FT, 6, 29)) THEN FMul(FT, FMul(FT, c, c), c)
    ELSE FMul(FT, FSub(FT, c, Lit(FT, 4, 29)), Lit(FT, 108, 841))

\* C19: converting Lab to Xyz computes fy = (L + 16) / 116, fx = fy + a / 500
\* and fz = fy - b / 200, applies g to each and multiplies channel by channel
\* by the white point's reference; Lab(0, 0, 0) gives Xyz(0, 0, 0) and
\* Lab(100, 0, 0) the white point; g is non-decreasing, and at the threshold
\* 6/29 its two pieces meet: in exact arithmetic the line's value there is the
\* cube's, and g never decreases from one argument to the next.
C19_LabToXyz ==
    /\ call = "Xyz::from(Lab)" =>
        LET fy == FDiv(FT, FAdd(FT, recv.l, 16 * Unit), 116 * Unit)
            fx == FAdd(FT, fy, FDiv(FT, recv.a, Lit(FT, 500, 1)))
            fz == FSub(FT, fy, FDiv(FT, recv.b, Lit(FT, 200, 1)))
        IN  /\ ret = Xyz(FMul(FT, C19_g(fx), X_N), FMul(FT, C19_g(fy), Y_N),
                         FMul(FT, C19_g(fz), Z_N))
            /\ recv = Lab(0, 0, 0) => ret = Xyz(0, 0, 0)
            /\ recv = Lab(100 * Unit, 0, 0) => ret = get_xyz
    /\ call = "Xyz::from(Lab)::convert" =>
        /\ ret = C19_g(arg)
        /\ \A d \in ConvertIn : FLe(d, arg) => FLe(Xyz_from_lab_convert(d), ret)
    /\ call = "Xyz::from(Lab)::convert, exact" =>
        /\ arg = 6 * Grid => ret = arg * arg * arg
        /\ arg = 6 * Grid + 1 =>
            ret - Xyz_from_lab_convert_exact(6 * Grid) = 3 * 6 * Grid * (6 * Grid + 1) + 1
        /\ arg - 1 \in ExactIn => ret >= Xyz_from_lab_convert_exact(arg - 1)

\* C19's case: a Lab colour with a positive a and a negative b was converted,
\* and x, y and z came out positive, finite and all different.
C19_Witness ==
    /\ call = "Xyz::from(Lab)"
    /\ recv = Lab(50 * Unit, 50 * Unit, 0 - 20 * Unit)
    /\ IsFinite(ret.x) /\ IsFinite(ret.z)
    /\ ret.y > 0 /\ ret.x > ret.y /\ ret.z > ret.x
    /\ ret.y < Y_N
\* a * a + b * b of the receiver of Lch::from(Lab), as the code computes it.
C20_SumOfSquares == FAdd(FT, FMul(FT, recv.a, recv.a), FMul(FT, recv.b, recv.b))

\* C20 as stated: converting Lab (l, a, b) to Lch keeps l, the chroma is never
\* negative and its square is a^2 + b^2; with a = b = 0 the hue is 0 degrees,
\* the chroma is 0 and get_hue on the result is None.
C20_ChromaSquaredIsSum ==
    call = "Lch::from(Lab)" =>
        /\ ret.l = recv.l
        /\ ~FLt(ret.chroma, 0)
        /\ FMul(FT, ret.chroma, ret.chroma) = C20_SumOfSquares
        /\ (recv.a = 0 /\ recv.b = 0) =>
            /\ to_degrees(ret.hue) = 0
            /\ ret.chroma = 0
            /\ Lch_get_hue(ret) = None

\* C20, amended: converting Lab (l, a, b) to Lch keeps l; the chroma is never
\* negative, it is NaN when a or b is NaN, and otherwise it is the float
\* nearest to the square root of the float a * a + b * b, so that a^2 + b^2
\* lies between the squares of the floats next to the chroma; with a = b = 0
\* the hue is 0 degrees, the chroma is 0 and get_hue on the result is None.
C20_ChromaIsRoundedRoot ==
    call = "Lch::from(Lab)" =>
        /\ ret.l = recv.l
        /\ ~FLt(ret.chroma, 0)
        /\ (IsNaN(recv.a) \/ IsNaN(recv.b)) => IsNaN(ret.chroma)
        /\ C20_SumOfSquares = PosInf => ret.chroma = PosInf
        /\ IsFinite(C20_SumOfSquares) =>
            /\ IsFinite(ret.chroma)
            /\ ret.chroma = 0 \/
                FPrev(FT, ret.chroma) * FPrev(FT, ret.chroma) < C20_SumOfSquares * Unit
            /\ C20_SumOfSquares * Unit < FNext(FT, ret.chroma) * FNext(FT, ret.chroma)
        /\ (recv.a = 0 /\ recv.b = 0) =>
            /\ to_degrees(ret.hue) = 0
            /\ ret.chroma = 0
            /\ Lch_get_hue(ret) = None

\* C20's case: a Lab colour with a = b = 1 was converted, and the square of
\* the chroma is not the sum of the squares.
C20_Witness ==
    /\ call = "Lch::from(Lab)"
    /\ recv.a = Unit /\ recv.b = Unit
    /\ ret.chroma > Unit /\ ret.chroma < 2 * Unit
    /\ FMul(FT, ret.chroma, ret.chroma) # C20_SumOfSquares
    /\ Lch_get_hue(ret) # None
\* The factor of a mix as the claims read it: clamped to [0, 1].
Clamped(f) == IF FLt(f, 0) THEN 0 ELSE IF FGt(f, Unit) THEN Unit ELSE f

\* C21: Lch mix gives the hue a.hue + f * d, where f is the clamped factor and
\* d is b.hue - a.hue reduced modulo 360 into (-180, 180], so the hue moves by
\* at most 180 degrees; hue 352 mixed with hue 8 at 0.5 gives 0 modulo 360; l
\* and chroma are a + f * (b - a).
C21_MixHueShortestPath ==
    call = "Lch::mix" =>
        LET f == Clamped(amt)
            diff == FSub(FT, arg.hue, recv.hue)
            d == to_degrees(diff)
        IN  /\ ret.hue = FAdd(FT, recv.hue, FMul(FT, f, d))
            /\ IsFinite(diff) =>
                /\ d > 0 - C360 \div 2 /\ d <= C360 \div 2
                /\ (d - diff) % C360 = 0
                /\ IsFinite(f) => Abs(FMul(FT, f, d)) <= C360 \div 2
            /\ (recv.hue = V(350, 1) /\ arg.hue = V(8, 1) /\ amt = Unit \div 2) =>
                to_degrees(ret.hue) = 0
            /\ ret.l = FAdd(FT, recv.l, FMul(FT, f, FSub(FT, arg.l, recv.l)))
            /\ ret.chroma = FAdd(FT, recv.chroma, FMul(FT, f, FSub(FT, arg.chroma, recv.chroma)))

\* C21's case: a hue just below 360 was mixed half way with a hue just above
\* 0, and the result is 0 modulo 360 and not the 180 degrees of the long way.
C21_Witness ==
    /\ call = "Lch::mix"
    /\ recv.hue = V(350, 1) /\ arg.hue = V(8, 1)
    /\ amt = Unit \div 2
    /\ to_degrees(ret.hue) = 0
    /\ ret.hue # FAdd(FT, recv.hue, FMul(FT, amt, FSub(FT, arg.hue, recv.hue)))
\* C22 as stated: Lch saturate(c, f) multiplies the chroma by 1 + f and leaves
\* l and hue unchanged, with no clamping: for f < -1 and chroma > 0 the result
\* has negative chroma, is not valid and has no hue; saturate(c, -1) yields
\* chroma 0.
C22_SaturateNegativeChroma ==
    call = "Lch::saturate" =>
        /\ ret = Lch(recv.l, FMul(FT, recv.chroma, FAdd(FT, Unit, amt)), recv.hue)
        /\ (FLt(amt, 0 - Unit) /\ FGt(recv.chroma, 0)) =>
            /\ FLt(ret.chroma, 0)
            /\ ~Lch_is_valid(ret)
            /\ Lch_get_hue(ret) = None
        /\ amt = 0 - Unit => ret.chroma = 0

\* C22, amended: Lch saturate(c, f) multiplies the chroma by 1 + f and leaves l
\* and hue unchanged, with no clamping: for f < -1 and chroma > 0 the result
\* has no hue, and its chroma is negative, which makes it invalid, unless the
\* product underflows to 0; saturate(c, -1) yields chroma 0 for a finite
\* chroma, and NaN for an infinite or NaN one.
C22_SaturateScalesChroma ==
    call = "Lch::saturate" =>
        /\ ret = Lch(recv.l, FMul(FT, recv.chroma, FAdd(FT, Unit, amt)), recv.hue)
        /\ (FLt(amt, 0 - Unit) /\ FGt(recv.chroma, 0)) =>
            /\ Lch_get_hue(ret) = None
            /\ FLt(ret.chroma, 0) \/ ret.chroma = 0
            /\ FLt(ret.chroma, 0) => ~Lch_is_valid(ret)
        /\ amt = 0 - Unit =>
            ret.chroma = IF IsFinite(recv.chroma) THEN 0 ELSE NaN

\* C22's case: a valid Lch of positive chroma was saturated by a factor below
\* -1, and came out with a negative chroma, invalid and without hue.
C22_Witness ==
    /\ call = "Lch::saturate"
    /\ Lch_is_valid(recv) /\ recv.chroma > 0
    /\ FLt(amt, 0 - Unit)
    /\ FLt(ret.chroma, 0)
    /\ ~Lch_is_valid(ret)
    /\ Lch_get_hue(ret) = None
\* C23: Lch lighten(c, x) returns l + 100 * x with chroma and hue unchanged and
\* no clamping, so that the result may leave [0, 100]; Xyz lighten(c, x) adds x
\* to y and leaves x and z unchanged.
C23_ShadeTouchesOnlyLightness ==
    /\ call = "Lch::lighten" =>
        /\ ret.l = FAdd(FT, recv.l, FMul(FT, amt, C100))
        /\ ret.chroma = recv.chroma
        /\ ret.hue = recv.hue
    /\ call = "Xyz::lighten" =>
        /\ ret.y = FAdd(FT, recv.y, amt)
        /\ ret.x = recv.x
        /\ ret.z = recv.z

\* C23's case: a valid Lch was lightened by a positive finite amount and its l
\* left [0, 100], which made it invalid.
C23_Witness ==
    /\ call = "Lch::lighten"
    /\ Lch_is_valid(recv)
    /\ IsFinite(amt) /\ amt > 0
    /\ IsFinite(ret.l) /\ ret.l > C100
    /\ ~Lch_is_valid(ret)
\* C24: Lch with_hue(c, h) gives hue h and the l and chroma of c, so get_hue on
\* the result is Some(h) when c.chroma > 0 and None when c.chroma <= 0;
\* with_hue applied twice keeps only the last hue.
C24_WithHueOverwritesHue ==
    call = "Lch::with_hue" =>
        /\ ret.hue = amt
        /\ ret.l = recv.l
        /\ ret.chroma = recv.chroma
        /\ FGt(recv.chroma, 0) => Lch_get_hue(ret) = Some(amt)
        /\ FLe(recv.chroma, 0) => Lch_get_hue(ret) = None
        /\ \A k \in HueAmounts : Lch_with_hue(Lch_with_hue(recv, k), amt) = ret

\* C24's case: an Lch of positive chroma was given a hue other than its own,
\* and get_hue on the result returns the new one.
C24_Witness ==
    /\ call = "Lch::with_hue"
    /\ IsFinite(recv.chroma) /\ recv.chroma > 0
    /\ IsFinite(amt) /\ amt # recv.hue /\ recv.hue # 0
    /\ Lch_get_hue(ret) = Some(amt)
\* The scalar operation of a closure name, on the floats.
C25_Scalar(f, a, b) ==
    CASE f = "add" -> FAdd(FT, a, b)
      [] f = "sub" -> FSub(FT, a, b)
      [] f = "mul" -> FMul(FT, a, b)
      [] f = "div" -> FDiv(FT, a, b)

\* C25: Xyz component_wise(a, b, f) returns (f(a.x, b.x), f(a.y, b.y),
\* f(a.z, b.z)) and component_wise_self(a, f) returns (f(a.x), f(a.y), f(a.z)),
\* with f called exactly once per channel in the order x, y, z; a + b, a - b,
\* a * b and a / b equal component_wise with the scalar operation.
C25_ComponentWise ==
    /\ call = "Xyz::component_wise" =>
        /\ ret.log = <<<<recv.x, arg.x>>, <<recv.y, arg.y>>, <<recv.z, arg.z>>>>
        /\ amt # "nth" =>
            ret.value = Xyz(C25_Scalar(amt, recv.x, arg.x), C25_Scalar(amt, recv.y, arg.y),
                            C25_Scalar(amt, recv.z, arg.z))
        /\ amt = "nth" =>
            ret.value = Xyz(recv.x, FAdd(FT, recv.y, Unit), FAdd(FT, recv.z, 2 * Unit))
    /\ call = "Xyz::component_wise_self" =>
        /\ ret.log = <<<<recv.x>>, <<recv.y>>, <<recv.z>>>>
        /\ amt = "neg" => ret.value = Xyz(FNeg(recv.x), FNeg(recv.y), FNeg(recv.z))
        /\ amt = "double" =>
            ret.value = Xyz(FMul(FT, 2 * Unit, recv.x), FMul(FT, 2 * Unit, recv.y),
                            FMul(FT, 2 * Unit, recv.z))
        /\ amt = "nth" =>
            ret.value = Xyz(recv.x, FAdd(FT, recv.y, Unit), FAdd(FT, recv.z, 2 * Unit))
    /\ call = "Xyz::add" => ret = Xyz_component_wise(recv, arg, "add").value
    /\ call = "Xyz::sub" => ret = Xyz_component_wise(recv, arg, "sub").value
    /\ call = "Xyz::mul" => ret = Xyz_component_wise(recv, arg, "mul").value
    /\ call = "Xyz::div" => ret = Xyz_component_wise(recv, arg, "div").value

\* C25's case: component_wise ran a closure that counts its calls on two
\* colours whose channels all differ, and the counts came out in the order x,
\* y, z.
C25_Witness ==
    /\ call = "Xyz::component_wise"
    /\ amt = "nth"
    /\ IsFinite(recv.x) /\ IsFinite(recv.z)
    /\ recv.x # recv.y /\ recv.y # recv.z /\ recv.x # recv.z
    /\ ret.value = Xyz(recv.x, recv.y + Unit, recv.z + 2 * Unit)
    /\ Len(ret.log) = 3
\* C26: the linear transfer function is the identity in both directions:
\* into_linear(x) = x and from_linear(x) = x for every x, NaN and the infinities
\* included, hence from_linear(into_linear(x)) = x.
C26_LinearIsIdentity ==
    /\ call = "LinearFn::into_linear" => ret = arg /\ from_linear(ret) = arg
    /\ call = "LinearFn::from_linear" => ret = arg /\ into_linear(ret) = arg

\* C26's case: a finite component outside [0, 1] went through from_linear
\* unchanged.
C26_Witness ==
    /\ call = "LinearFn::from_linear"
    /\ IsFinite(arg) /\ arg > Unit
    /\ ret = arg
\* C27 as stated: for Lch and Xyz, is_valid(c) holds if and only if
\* clamp(c) = c, and clamp returns what clamp_self leaves in a copy of the
\* receiver.
C27_ValidIffClampIsNoOp ==
    /\ call = "Lch::clamp" =>
        /\ Lch_is_valid(recv) <=> ret = recv
        /\ ret = Lch_clamp_self(recv)
    /\ call = "Xyz::clamp" =>
        /\ Xyz_is_valid(recv) <=> ret = recv
        /\ ret = Xyz_clamp_self(recv)
\* The distance between neighbouring floats of magnitude m.
Step(m) == 2 ^ (IF BitLen(m) - FT.p > FT.lo THEN BitLen(m) - FT.p ELSE FT.lo)

\* The receiver, the other colour and the factor of an Lch mix are finite, and
\* the factor is in [0, 1].
C28_InScope ==
    /\ call = "Lch::mix"
    /\ IsFinite(amt) /\ amt >= 0 /\ amt <= Unit
    /\ IsFinite(recv.l) /\ IsFinite(arg.l)
    /\ IsFinite(recv.chroma) /\ IsFinite(arg.chroma)
    /\ IsFinite(recv.hue) /\ IsFinite(arg.hue)

\* mix(b, a, 1 - f) for the mix(a, b, f) that was called.
C28_Swapped == Lch_mix(arg, recv, FSub(FT, Unit, amt))

C29_ApproxEqNeedsSameVariant ==
    /\ call = "Color::relative_eq" =>
        ret = (/\ recv.variant = arg.variant
               /\ Variant_relative_eq(recv.variant, recv.value, arg.value, amt[1], amt[2]))
    /\ call = "Color::ulps_eq" =>
        ret = (/\ recv.variant = arg.variant
               /\ Variant_ulps_eq(recv.variant, recv.value, arg.value, amt[1], amt[2]))

\* A Yxy colour against the Xyz colour it converts to, channels not all zero:
\* the comparison is false although the same values in one variant compare equal.
C29_Witness ==
    /\ call = "Color::relative_eq"
    /\ recv.variant = "Yxy" /\ arg.variant = "Xyz"
    /\ recv.value.luma = Unit /\ recv.value.x = Unit \div 2
    /\ arg.value = Xyz_from_yxy(recv.value)
    /\ Variant_relative_eq("Xyz", Xyz_from_yxy(recv.value), arg.value, amt[1], amt[2])
    /\ ret = FALSE
====
